---------------------------- MODULE Spec2Model ----------------------------
(***************************************************************************)
(* IBM RXN Chemistry Protocol Extractor (src/app.py).                      *)
(*                                                                         *)
(* The program is one Streamlit script.  Every user interaction with a     *)
(* widget executes the script once from top to bottom against the          *)
(* session's st.session_state; st.rerun() aborts the execution and         *)
(* schedules another one, st.stop() aborts it.  One step of the model is   *)
(* one execution of the script: the user events (a click, a toggle, an     *)
(* edit) and the execution that st.rerun() schedules.                      *)
(*                                                                         *)
(* Texts are sequences of characters, keys are strings, the remote         *)
(* service and the RXN4ChemistryWrapper constructor are nondeterministic   *)
(* inputs of the step that calls them.                                     *)
(***************************************************************************)
EXTENDS Naturals, Sequences, FiniteSets

VARIABLES
    secrets,             \* st.secrets["ibm_rxn_api_key"], NoKey when not there
    environ,             \* os.environ.get("IBM_RXN_API_KEY"), NoKey when unset
    extraction_history,  \* st.session_state.extraction_history
    api_initialized,     \* st.session_state.api_initialized
    api_key,             \* st.session_state.api_key
    example_text,        \* st.session_state.example_text
    rxn_wrapper,         \* st.session_state.rxn_wrapper: the key it was built with
    last_result,         \* st.session_state.last_result
    show_raw_response,   \* checkbox "Show raw API response"
    enable_history,      \* checkbox "Enable extraction history"
    manual_key,          \* text_input "Enter API Key manually:"
    procedure_input,     \* text_area key="procedure_input": the text it holds
    text_area_value,     \* the value= argument the text_area was created with
    view,                \* what the latest execution rendered
    trace,               \* what the latest execution called
    event,               \* the user event the latest execution belongs to
    rerun_pending        \* st.rerun() was called: the script runs again next

vars == << secrets, environ, extraction_history, api_initialized, api_key,
           example_text, rxn_wrapper, last_result, show_raw_response,
           enable_history, manual_key, procedure_input, text_area_value,
           view, trace, event, rerun_pending >>

-----------------------------------------------------------------------------
(* Bounds of the model.                                                    *)

\* Longest history an extraction is still allowed to extend under Spec.
MaxHist == 2

\* Longest history an extraction is still allowed to extend under HistSpec.
MaxLongHist == 6

-----------------------------------------------------------------------------
(* Values.                                                                 *)

\* Python's None for a key.
NoKey == "<None>"

\* The keys the secrets store, the environment and the user can supply.
ManualKeys == {"kM", "kN"}

\* st.session_state has no rxn_wrapper yet.
NoWrapper == "<unset>"

\* Python truthiness of a key: None and "" are falsy.
Falsy(k) == k \in {NoKey, ""}

Whitespace == {" "}

\* The texts the user types into the text area: empty, blank, and with a
\* character that is no whitespace.
InputTexts == {<<>>, << " " >>, << "x" >>}

\* A text of n characters c.
Fill(c, n) == [i \in 1..n |-> c]

\* The three example procedures, by their lengths; none starts or ends
\* with whitespace.
example1 == Fill("1", 581)
example2 == Fill("2", 369)
example3 == Fill("3", 858)

\* str.strip(): leading and trailing whitespace removed.
RECURSIVE LStrip(_)
LStrip(s) == IF s # <<>> /\ Head(s) \in Whitespace THEN LStrip(Tail(s)) ELSE s

RECURSIVE RStrip(_)
RStrip(s) ==
    IF s # <<>> /\ s[Len(s)] \in Whitespace
    THEN RStrip(SubSeq(s, 1, Len(s) - 1))
    ELSE s

\* Mutant of Strip: the text is tested as typed.
StripNothing(s) == s

Strip(s) == RStrip(LStrip(s))

\* The action strings and the action lists the remote service returns.
ActionLists == {<<>>, << "STIR", "ADD" >>}

\* What paragraph_to_actions hands back: a dict with or without the key
\* "actions", or a value that is no dict (None).
DictResult(as) == [type |-> "dict", has_actions |-> TRUE, actions |-> as]
DictNoActions == [type |-> "dict", has_actions |-> FALSE, actions |-> <<>>]
NoneResult == [type |-> "NoneType", has_actions |-> FALSE, actions |-> <<>>]

\* 'last_result' not in st.session_state.
NoResult == [type |-> "unset", has_actions |-> FALSE, actions |-> <<>>]

Results == {DictResult(as) : as \in ActionLists} \cup {DictNoActions, NoneResult}

\* The outcomes of the remote call: it raises, or it returns a result.
Raise == [raises |-> TRUE, value |-> NoResult]
Return(r) == [raises |-> FALSE, value |-> r]
Responses == {Raise} \cup {Return(r) : r \in Results}
NoResponse == [raises |-> FALSE, value |-> NoResult]

\* datetime.now(), to the second: the readings of the clock.  A history
\* entry keeps the reading; nothing in the script reads it back.
Timestamps == {"t1"}


-----------------------------------------------------------------------------
(* One execution of the script.  R is the execution's record: the session  *)
(* state and the widget state it reads and writes, the inputs it receives  *)
(* (the triggering widget ev, the outcomes of the constructor and of the    *)
(* remote call, the clock), what it renders and what it calls.  ctl is     *)
(* "run" while the script is executing, "rerun" after st.rerun(), "stop"   *)
(* after st.stop() and "done" at the end of the file.                      *)

\* No text_area has been created yet.
NoWidget == << "<no widget>" >>

\* The execution no widget triggered.
NoButton == "<rerun>"

\* The record of an execution triggered by the widget ev.
Begin(ev) ==
    [ ev |-> ev, event |-> ev, ctor_ok |-> TRUE, resp |-> NoResponse, now |-> "t1",
      extraction_history |-> extraction_history,
      api_initialized |-> api_initialized,
      api_key |-> api_key,
      example_text |-> example_text,
      rxn_wrapper |-> rxn_wrapper,
      last_result |-> last_result,
      show_raw_response |-> show_raw_response,
      enable_history |-> enable_history,
      manual_key |-> manual_key,
      procedure_input |-> procedure_input,
      text_area_value |-> text_area_value,
      ctl |-> "run", wrapper |-> NoWrapper, input_text |-> <<>>,
      widgets |-> {}, message |-> "none", steps |-> <<>>, raw_shown |-> FALSE,
      displayed |-> <<>>,
      resolved |-> FALSE, absent |-> FALSE, constructed |-> FALSE,
      extracted |-> FALSE, used_key |-> NoKey ]

\* A widget is rendered.
Render(R, w) == [R EXCEPT !.widgets = @ \cup {w}]

\* st.button(...) is True in the execution its click triggered.
Button(R, w) == R.ev = w

\* load_api_key(): the secrets store, then the environment variable.
load_api_key ==
    IF secrets # NoKey THEN secrets
    ELSE IF ~Falsy(environ) THEN environ
    ELSE NoKey

\* Sidebar, settings: the two checkboxes and the Clear History button.
Settings(R) ==
    LET R1 == Render(Render(R, "show_raw_response"), "enable_history")
        R2 == Render(R1, "clear_history")
    IN  IF R.ctl # "run" THEN R
        ELSE IF R1.enable_history /\ R1.extraction_history # <<>>
        THEN IF Button(R2, "clear_history")
             THEN [R2 EXCEPT !.extraction_history = <<>>, !.ctl = "rerun"]
             ELSE R2
        ELSE R1

\* Mutant of Resolve: the key is loaded in every execution.
ResolveAlways(R) == [R EXCEPT !.api_key = load_api_key, !.resolved = TRUE]

\* "if not st.session_state.api_key: st.session_state.api_key = load_api_key()"
Resolve(R) ==
    IF Falsy(R.api_key)
    THEN [R EXCEPT !.api_key = load_api_key, !.resolved = TRUE]
    ELSE R

\* Mutant of ChangeKey: api_initialized is left as it is.
ChangeKeyKeepsClient(R) == [R EXCEPT !.api_key = NoKey, !.ctl = "rerun"]

\* The Change API Key handler.
ChangeKey(R) ==
    [R EXCEPT !.api_key = NoKey, !.api_initialized = FALSE, !.ctl = "rerun"]

\* The Save API Key handler.
SaveKey(R) ==
    [R EXCEPT !.api_key = R.manual_key, !.api_initialized = FALSE,
              !.ctl = "rerun"]

\* Sidebar, API configuration.
Credential(R) ==
    LET R1 == Resolve(R)
        R2 == Render(R1, "change_key")
        R3 == Render(Render([R1 EXCEPT !.absent = TRUE], "manual_key"),
                     "save_key")
    IN  IF R.ctl # "run" THEN R
        ELSE IF ~Falsy(R1.api_key)
        THEN IF Button(R2, "change_key") THEN ChangeKey(R2) ELSE R2
        ELSE IF Button(R3, "save_key") /\ R3.manual_key # ""
             THEN SaveKey(R3)
             ELSE R3

\* Mutant of KeyGate: the error box without st.stop().
KeyGateNoStop(R) ==
    IF R.ctl = "run" /\ Falsy(R.api_key)
    THEN [R EXCEPT !.message = "key_required"]
    ELSE R

\* "Check if API key is available": the error box and st.stop().
KeyGate(R) ==
    IF R.ctl = "run" /\ Falsy(R.api_key)
    THEN [R EXCEPT !.message = "key_required", !.ctl = "stop"]
    ELSE R

\* The Reset API Configuration handler.
ResetApi(R) ==
    [R EXCEPT !.api_key = NoKey, !.api_initialized = FALSE, !.ctl = "rerun"]

\* "Initialize API wrapper with error handling".
InitWrapper(R) ==
    LET Failed == Render([R EXCEPT !.constructed = TRUE,
                                   !.message = "init_failed"], "reset_api")
    IN  IF R.ctl # "run" THEN R
        ELSE IF ~R.api_initialized
        THEN IF R.ctor_ok
             THEN [R EXCEPT !.constructed = TRUE,
                            !.wrapper = R.api_key,
                            !.rxn_wrapper = R.api_key,
                            !.api_initialized = TRUE]
             ELSE IF Button(Failed, "reset_api")
                  THEN ResetApi(Failed)
                  ELSE [Failed EXCEPT !.ctl = "stop"]
        ELSE [R EXCEPT !.wrapper = R.rxn_wrapper]

\* The Load Example buttons.
Examples(R) ==
    LET R1 == Render(Render(Render(R, "load1"), "load2"), "load3")
    IN  IF R.ctl # "run" THEN R
        ELSE IF Button(R1, "load1")
        THEN [R1 EXCEPT !.example_text = example1, !.ctl = "rerun"]
        ELSE IF Button(R1, "load2")
        THEN [R1 EXCEPT !.example_text = example2, !.ctl = "rerun"]
        ELSE IF Button(R1, "load3")
        THEN [R1 EXCEPT !.example_text = example3, !.ctl = "rerun"]
        ELSE R1

\* st.text_area(value=example_text, key="procedure_input"): a text_area
\* created with another value= is another widget and starts from that
\* value; otherwise the widget keeps the text it holds.
TextArea(R) ==
    LET value == R.example_text
        R1 == IF value # R.text_area_value
              THEN [R EXCEPT !.procedure_input = value,
                             !.text_area_value = value]
              ELSE R
    IN  IF R.ctl # "run" THEN R
        ELSE [Render(R1, "procedure_input") EXCEPT
                  !.input_text = R1.procedure_input]

\* The Extract and Clear buttons.
ActionButtons(R) ==
    IF R.ctl # "run" THEN R ELSE Render(Render(R, "extract"), "clear")

\* The Clear handler.
ClearButton(R) ==
    IF R.ctl = "run" /\ Button(R, "clear")
    THEN [R EXCEPT !.example_text = <<>>, !.last_result = NoResult,
                   !.ctl = "rerun"]
    ELSE R

\* The length of the input preview a history entry keeps.
PreviewLen == 100

\* input_text[:100] + "..." if len(input_text) > 100 else input_text
Preview(text) ==
    IF Len(text) > PreviewLen
    THEN SubSeq(text, 1, PreviewLen) \o << ".", ".", "." >>
    ELSE text

\* The history entry of an extraction.
Entry(now, text, actions) ==
    [ timestamp |-> now, input |-> Preview(text),
      steps_count |-> Len(actions), actions |-> actions ]

\* Mutant of AddToHistory: the entry is inserted at the front.
AddToHistoryFront(R, actions) ==
    IF R.enable_history
    THEN [R EXCEPT !.extraction_history =
                       << Entry(R.now, R.input_text, actions) >> \o @]
    ELSE R

\* "Add to history": extraction_history.append({...}) when history is on.
AddToHistory(R, actions) ==
    IF R.enable_history
    THEN [R EXCEPT !.extraction_history =
                       Append(@, Entry(R.now, R.input_text, actions))]
    ELSE R

\* The step boxes: enumerate(actions, 1).
StepBoxes(actions) == [i \in 1..Len(actions) |-> << i, actions[i] >>]

DownloadButtons == {"download_json", "download_txt", "download_md"}

\* The branch "if actions:" of the handler: the success box, the steps,
\* the raw response, the history entry and the three download buttons.
Succeeded(R, actions) ==
    LET R1 == [R EXCEPT !.message = "success",
                        !.steps = StepBoxes(actions),
                        !.raw_shown = R.show_raw_response]
        R2 == AddToHistory(R1, actions)
    IN  [R2 EXCEPT !.widgets = @ \cup DownloadButtons]

\* result.get("actions", [])
GetActions(result) == IF result.has_actions THEN result.actions ELSE <<>>

\* Mutant of Returned: the branch "if actions:" is taken for every dict.
ReturnedNoEmptyCheck(R, result) ==
    LET R1 == [R EXCEPT !.last_result = result]
    IN  IF result.type # "dict"
        THEN [R1 EXCEPT !.message = "error"]
        ELSE Succeeded(R1, GetActions(result))

\* The body of the try block once paragraph_to_actions has returned:
\* the result is stored, then read; reading a result that is no dict
\* raises, and the except branch shows the error box.
Returned(R, result) ==
    LET R1 == [R EXCEPT !.last_result = result]
    IN  IF result.type # "dict"
        THEN [R1 EXCEPT !.message = "error"]
        ELSE IF GetActions(result) # <<>>
        THEN Succeeded(R1, GetActions(result))
        ELSE [R1 EXCEPT !.message = "info_empty"]

\* "Main extraction logic": the handler of the Extract button.
Extraction(R) ==
    LET Called == [R EXCEPT !.extracted = TRUE, !.used_key = R.wrapper]
    IN  IF R.ctl # "run" \/ ~Button(R, "extract") THEN R
        ELSE IF Strip(R.input_text) = <<>>
        THEN [R EXCEPT !.message = "warning"]
        ELSE IF R.resp.raises
        THEN [Called EXCEPT !.message = "error"]
        ELSE Returned(Called, R.resp.value)

\* The number of entries the history display shows.
HistoryShown == 5

\* history[-n:]
LastN(h, n) == IF Len(h) > n THEN SubSeq(h, Len(h) - n + 1, Len(h)) ELSE h

\* reversed(h)
Reversed(h) == [i \in 1..Len(h) |-> h[Len(h) + 1 - i]]

\* Mutant of HistoryDisplay: the first 5 entries, history[:5].
HistoryDisplayFirst(R) ==
    IF R.ctl = "run" /\ R.enable_history /\ R.extraction_history # <<>>
    THEN [R EXCEPT !.displayed =
              Reversed(SubSeq(R.extraction_history, 1,
                   IF Len(R.extraction_history) > HistoryShown
                   THEN HistoryShown ELSE Len(R.extraction_history)))]
    ELSE R

\* "Display extraction history": the last 5 entries, latest first.
HistoryDisplay(R) ==
    IF R.ctl = "run" /\ R.enable_history /\ R.extraction_history # <<>>
    THEN [R EXCEPT !.displayed =
                       Reversed(LastN(R.extraction_history, HistoryShown))]
    ELSE R

\* The end of the file: the execution is complete, and the state of a
\* widget it did not render is dropped.
Finish(R) ==
    IF R.ctl = "run"
    THEN [R EXCEPT !.ctl = "done",
                   !.manual_key = IF "manual_key" \in R.widgets THEN @ ELSE ""]
    ELSE R

\* The script, top to bottom.
Script(R) ==
    Finish(HistoryDisplay(Extraction(ClearButton(ActionButtons(TextArea(
        Examples(InitWrapper(KeyGate(Credential(Settings(R)))))))))))

\* The state an execution leaves.
Commit(R) ==
    /\ extraction_history' = R.extraction_history
    /\ api_initialized' = R.api_initialized
    /\ api_key' = R.api_key
    /\ example_text' = R.example_text
    /\ rxn_wrapper' = R.rxn_wrapper
    /\ last_result' = R.last_result
    /\ show_raw_response' = R.show_raw_response
    /\ enable_history' = R.enable_history
    /\ manual_key' = R.manual_key
    /\ procedure_input' = R.procedure_input
    /\ text_area_value' = R.text_area_value
    /\ view' = [ widgets |-> R.widgets, message |-> R.message,
                 steps |-> R.steps, raw_shown |-> R.raw_shown,
                 displayed |-> R.displayed ]
    /\ trace' = [ resolved |-> R.resolved, absent |-> R.absent,
                  constructed |-> R.constructed, extracted |-> R.extracted,
                  used_key |-> R.used_key,
                  resp |-> IF R.extracted THEN R.resp ELSE NoResponse,
                  completed |-> R.ctl = "done" ]
    /\ event' = R.event
    /\ rerun_pending' = (R.ctl = "rerun")
    /\ UNCHANGED << secrets, environ >>

\* An execution of the script from the record R0; the constructor, which
\* is called only while api_initialized is False, returns or raises.
Exec(R0) ==
    \E ok \in (IF R0.api_initialized THEN {TRUE} ELSE BOOLEAN) :
        Commit(Script([R0 EXCEPT !.ctor_ok = ok]))

-----------------------------------------------------------------------------
(* The session.                                                            *)

NoView == [ widgets |-> {}, message |-> "none", steps |-> <<>>,
            raw_shown |-> FALSE, displayed |-> <<>> ]

NoTrace == [ resolved |-> FALSE, absent |-> FALSE, constructed |-> FALSE,
             extracted |-> FALSE, used_key |-> NoKey,
             resp |-> NoResponse, completed |-> FALSE ]

\* The credential sources of a session: nothing configured, an
\* environment key alone, a secret beside an environment key.
Environments == { << NoKey, NoKey >>, << NoKey, "kE" >>, << "kS", "kE" >> }

\* A new session: "Initialize session state", the widgets at their
\* defaults, and the first execution of the script pending.
Init ==
    /\ \E e \in Environments : secrets = e[1] /\ environ = e[2]
    /\ extraction_history = <<>>
    /\ api_initialized = FALSE
    /\ api_key = NoKey
    /\ example_text = <<>>
    /\ rxn_wrapper = NoWrapper
    /\ last_result = NoResult
    /\ show_raw_response = FALSE
    /\ enable_history = TRUE
    /\ manual_key = ""
    /\ procedure_input = <<>>
    /\ text_area_value = NoWidget
    /\ view = NoView
    /\ trace = NoTrace
    /\ event = "session_start"
    /\ rerun_pending = TRUE

\* The execution st.rerun() scheduled (and the first one of the session):
\* no widget triggered it.
Rerun ==
    /\ rerun_pending
    /\ Exec([Begin(NoButton) EXCEPT !.event = event])

\* The user can act on a widget the page shows, once the page is settled.
Shown(w) == ~rerun_pending /\ w \in view.widgets

ToggleShowRaw ==
    /\ Shown("show_raw_response")
    /\ Exec([Begin("show_raw_response") EXCEPT !.show_raw_response = ~@])

ToggleHistory ==
    /\ Shown("enable_history")
    /\ Exec([Begin("enable_history") EXCEPT !.enable_history = ~@])

ClickClearHistory ==
    /\ Shown("clear_history")
    /\ Exec(Begin("clear_history"))

ClickChangeKey ==
    /\ Shown("change_key")
    /\ Exec(Begin("change_key"))

EnterManualKey(k) ==
    /\ Shown("manual_key")
    /\ k # manual_key
    /\ Exec([Begin("manual_key") EXCEPT !.manual_key = k])

ClickSaveKey ==
    /\ Shown("save_key")
    /\ Exec(Begin("save_key"))

ClickReset ==
    /\ Shown("reset_api")
    /\ Exec(Begin("reset_api"))

LoadButtons == {"load1", "load2", "load3"}

ClickLoadExample(w) ==
    /\ Shown(w)
    /\ Exec(Begin(w))

EditInput(t) ==
    /\ Shown("procedure_input")
    /\ t # procedure_input
    /\ Exec([Begin("procedure_input") EXCEPT !.procedure_input = t])

ClickExtract(resp, now, maxh) ==
    /\ Shown("extract")
    /\ Len(extraction_history) < maxh
    /\ Exec([Begin("extract") EXCEPT !.resp = resp, !.now = now])

ClickClear ==
    /\ Shown("clear")
    /\ Exec(Begin("clear"))

ClickDownload(w) ==
    /\ Shown(w)
    /\ Exec(Begin(w))

\* The user's events.  Of the three Load Example buttons, whose handlers
\* differ in the example alone, the user clicks the first.
Next ==
    \/ Rerun
    \/ ToggleShowRaw
    \/ ToggleHistory
    \/ ClickClearHistory
    \/ ClickChangeKey
    \/ \E k \in ManualKeys \cup {""} : EnterManualKey(k)
    \/ ClickSaveKey
    \/ ClickReset
    \/ \E w \in {"load1"} : ClickLoadExample(w)
    \/ \E t \in InputTexts : EditInput(t)
    \/ \E resp \in Responses, now \in Timestamps :
           ClickExtract(resp, now, MaxHist)
    \/ ClickClear
    \/ \E w \in DownloadButtons : ClickDownload(w)

Spec == Init /\ [][Next]_vars

(* A session with a configured secret, followed through a long history:    *)
(* the credential is never absent, so no key is entered or saved; the      *)
(* user types the procedure, and the service returns one or two steps.     *)

HistResponses ==
    { Raise, Return(DictResult(<<>>)), Return(DictResult(<< "ADD" >>)),
      Return(DictResult(<< "STIR", "ADD" >>)) }

InitHist == Init /\ secrets = "kS"

NextHist ==
    \/ Rerun
    \/ ToggleShowRaw
    \/ ToggleHistory
    \/ ClickClearHistory
    \/ \E t \in InputTexts : EditInput(t)
    \/ \E resp \in HistResponses, now \in Timestamps :
           ClickExtract(resp, now, MaxLongHist)
    \/ ClickClear
    \/ \E w \in DownloadButtons : ClickDownload(w)

HistSpec == InitHist /\ [][NextHist]_vars

-----------------------------------------------------------------------------
(* The claims.                                                             *)

\* A text that is empty once its whitespace is trimmed.
IsBlank(s) == \A i \in 1..Len(s) : s[i] \in Whitespace

\* The execution just made is a submit whose remote call returned a dict
\* with the action list as.
SubmitReturned(as) ==
    /\ event' = "extract"
    /\ trace'.extracted
    /\ ~trace'.resp.raises
    /\ trace'.resp.value.type = "dict"
    /\ GetActions(trace'.resp.value) = as

\* C1: every submit that ends in the error box leaves the history and the
\* stored last result as they were before the submit.
C1_ErrorKeepsHistoryAndResult ==
    [][ (event' = "extract" /\ view'.message = "error")
        => /\ extraction_history' = extraction_history
           /\ last_result' = last_result ]_vars

\* C2: a submit whose remote call succeeds with an empty action list
\* appends no history entry, shows the "no steps extracted" message and
\* offers no download button.
C2_EmptyResultNoHistoryNoExport ==
    [][ SubmitReturned(<<>>)
        => /\ extraction_history' = extraction_history
           /\ view'.message = "info_empty"
           /\ view'.widgets \cap DownloadButtons = {} ]_vars

C2_Witness ==
    /\ event = "extract"
    /\ trace.extracted
    /\ trace.resp = Return(DictResult(<<>>))
    /\ view.message = "info_empty"
    /\ enable_history
    /\ extraction_history # <<>>

\* C3: a submit whose input text is empty after trimming makes no remote
\* call (no client construction, no extraction), shows the validation
\* warning, and leaves the stored last result and the history unchanged.
C3_BlankInputRejectedLocally ==
    [][ (event' = "extract" /\ IsBlank(procedure_input'))
        => /\ ~trace'.extracted
           /\ ~trace'.constructed
           /\ view'.message = "warning"
           /\ last_result' = last_result
           /\ extraction_history' = extraction_history ]_vars

C3_Witness ==
    /\ event = "extract"
    /\ procedure_input = << " " >>
    /\ view.message = "warning"
    /\ last_result # NoResult
    /\ extraction_history # <<>>

\* C4: an execution in which the credential is absent after resolution
\* makes no remote call, neither the client's construction nor an
\* extraction; and while no credential is stored the page offers no
\* Extract button.
C4_NoCallWithoutCredential ==
    /\ trace.absent => ~trace.constructed /\ ~trace.extracted
    /\ Falsy(api_key) => "extract" \notin view.widgets

C4_Witness ==
    /\ trace.absent
    /\ view.message = "key_required"
    /\ event = "change_key"
    /\ rxn_wrapper \in ManualKeys

\* The outcomes of a submit.
Outcomes == {"success", "info_empty", "error"}

\* The events that return the orchestrator to Idle, and the next submit.
LeavesOutcome == {"procedure_input", "clear", "extract"} \cup LoadButtons

\* C5: once a submit reached an outcome, what it rendered (the outcome's
\* message, the steps, the download buttons) stays until the next input
\* change, clear or submit: no other user action removes it.
C5_OutcomeStays ==
    [][ (view.message \in Outcomes /\ event' \notin LeavesOutcome)
        => /\ view'.message = view.message
           /\ view'.steps = view.steps
           /\ view'.widgets \cap DownloadButtons
                  = view.widgets \cap DownloadButtons ]_vars

\* C6: Clear leaves the history and the credential unchanged, and once
\* its rerun is over the input text is empty and no last result is stored.
C6_ClearDiscardsInputAndResult ==
    [][ /\ event' = "clear"
            => /\ extraction_history' = extraction_history
               /\ api_key' = api_key
        /\ (event' = "clear" /\ ~rerun_pending')
            => /\ procedure_input' = <<>>
               /\ last_result' = NoResult ]_vars

\* C7: the history display shows at most 5 entries, the most recently
\* appended ones, latest first (all of them, up to 5, when an execution
\* with history enabled reaches the display); after Clear History nothing
\* is displayed and the history is empty.
C7_HistoryDisplayBounded ==
    LET h == extraction_history
        d == view.displayed
    IN  /\ Len(d) <= 5
        /\ Len(d) <= Len(h)
        /\ \A i \in 1..Len(d) : d[i] = h[Len(h) + 1 - i]
        /\ (trace.completed /\ enable_history)
               => Len(d) = IF Len(h) > 5 THEN 5 ELSE Len(h)
        /\ event = "clear_history" => h = <<>> /\ d = <<>>

C7_Witness ==
    /\ Len(extraction_history) > 5
    /\ Len(view.displayed) = 5
    /\ view.displayed[1] # view.displayed[5]
    /\ extraction_history[1] # extraction_history[2]

\* C8 as the specification states it: credential resolution is attempted
\* once per session, in its first execution, and again only in the
\* execution that follows a Change API Key.
C8_ResolvedOncePerSession ==
    [][ trace'.resolved
        => \/ event' = "session_start"
           \/ event' = "change_key" /\ rerun_pending ]_vars

\* The step is the execution a Clear History click triggers: st.rerun()
\* ends it before the API configuration section.
ClearHistoryClick == event' = "clear_history" /\ ~rerun_pending

\* C8 as amended: resolution is attempted in exactly the executions that
\* reach the API configuration section with no credential stored, the
\* first of the session or a later one; a stored credential is cleared
\* only by Change API Key or Reset API Configuration, and the execution
\* that follows either attempts resolution again.
C8_ResolvedWhileAbsent ==
    [][ /\ trace'.resolved <=> (Falsy(api_key) /\ ~ClearHistoryClick)
        /\ (~Falsy(api_key) /\ Falsy(api_key'))
               => event' \in {"change_key", "reset_api"}
        /\ (rerun_pending /\ event \in {"change_key", "reset_api"})
               => trace'.resolved ]_vars

C8_Witness ==
    /\ event = "show_raw_response"
    /\ trace.resolved
    /\ trace.absent
    /\ rxn_wrapper \in ManualKeys

\* The history after the step extends the history before it by one entry
\* that holds the actions as and their number.
AppendedOne(as) ==
    LET h == extraction_history
        g == extraction_history'
    IN  /\ Len(g) = Len(h) + 1
        /\ \A i \in 1..Len(h) : g[i] = h[i]
        /\ g[Len(g)].actions = as
        /\ g[Len(g)].steps_count = Len(as)

\* The step is a submit that returned a non-empty action list while the
\* history was enabled.
SubmitWithSteps ==
    /\ enable_history'
    /\ \E as \in ActionLists \ {<<>>} : SubmitReturned(as)

\* The history changes only by the append of a successful submit or by
\* Clear History, which empties it.
AppendOnly ==
    /\ SubmitWithSteps
           => \E as \in ActionLists \ {<<>>} : SubmitReturned(as) /\ AppendedOne(as)
    /\ extraction_history' # extraction_history
           => \/ SubmitWithSteps
              \/ event' = "clear_history" /\ extraction_history' = <<>>

\* C9 as the specification states it: the history is append-only, and
\* Clear History is available whenever the history is non-empty.
C9_AppendOnlyClearAlwaysAvailable ==
    [][ /\ AppendOnly
        /\ (extraction_history' # <<>> /\ ~rerun_pending')
               => "clear_history" \in view'.widgets ]_vars

\* C9 as amended: the history is append-only, and an execution offers
\* Clear History exactly when, as its sidebar is rendered, history is
\* enabled and the history is already non-empty.
C9_AppendOnlyClearWhenEnabled ==
    [][ /\ AppendOnly
        /\ "clear_history" \in view'.widgets
               <=> (enable_history' /\ extraction_history # <<>>) ]_vars

C9_Witness ==
    /\ event = "extract"
    /\ view.message = "success"
    /\ Len(extraction_history) = 2
    /\ extraction_history[1] # extraction_history[2]
    /\ "clear_history" \in view.widgets

\* C10: whenever api_initialized is true a credential is stored and the
\* stored client was built with it; every extraction uses a client built
\* with the credential stored in the session.
C10_ClientBuiltWithCurrentKey ==
    /\ api_initialized => ~Falsy(api_key) /\ rxn_wrapper = api_key
    /\ trace.extracted => ~Falsy(api_key) /\ trace.used_key = api_key

C10_Witness ==
    /\ event = "extract"
    /\ trace.extracted
    /\ api_key = "kN"
    /\ trace.used_key = "kN"
    /\ last_result # NoResult

=============================================================================
